---- MODULE Spec2Model ----
(***************************************************************************)
(* Model of the Vehicle-Insurance support code:                            *)
(*   src/src/exception/__init__.py  error_message_detail, CustomException  *)
(*   src/constants/__init__.py      module-level configuration constants   *)
(*                                                                         *)
(* Python text (str) is modelled as a sequence of one-character strings,   *)
(* so that formatting, str() and int() are computed character by           *)
(* character.                                                              *)
(***************************************************************************)
EXTENDS Integers, Sequences, FiniteSets, TLC

VARIABLES
    objects,                \* the CustomException instances constructed so far
    sink,                   \* records the logging sink has received
    exc_tb,                 \* sys.exc_info()[2]: the active traceback chain, <<>> = None
    sinkRaises,             \* TRUE while the logging sink raises on emit
    calls,                  \* number of CustomException(...) calls made
    last,                   \* what the most recent operation did
    environ,                \* os.environ of the process
    dotenv,                 \* the contents of the .env file
    importState,            \* "pending", "loaded" or "ValueError"
    MONGODB_URL,
    AWS_ACCESS_KEY_ID,
    AWS_SECRET_ACCESS_KEY,
    APP_HOST,
    APP_PORT

annotatorVars == <<objects, sink, exc_tb, sinkRaises, calls, last>>
configVars == <<environ, dotenv, importState, MONGODB_URL, AWS_ACCESS_KEY_ID,
                AWS_SECRET_ACCESS_KEY, APP_HOST, APP_PORT>>
vars == <<objects, sink, exc_tb, sinkRaises, calls, last, environ, dotenv,
          importState, MONGODB_URL, AWS_ACCESS_KEY_ID, AWS_SECRET_ACCESS_KEY,
          APP_HOST, APP_PORT>>

----------------------------------------------------------------------------
(* Bounds of the model *)

MaxCalls == 2       \* CustomException(...) calls per behaviour
MaxMsgLen == 1      \* length of a text passed to CustomException
MaxDepth == 2       \* frames in an active traceback chain
MaxEnvLen == 2      \* length of the text of an APP_PORT setting

----------------------------------------------------------------------------
(* Python values *)

None == [py |-> "None"]
Undefined == [py |-> "undefined"]               \* a name not (yet) bound
PyStr(s) == [py |-> "str", s |-> s]
PyInt(n) == [py |-> "int", n |-> n]
BadStr == [py |-> "BadStr"]                     \* an object whose __str__ raises
Ref(i) == [py |-> "CustomException", id |-> i]  \* the instance objects[i]

SeqsUpTo(S, n) == UNION {[1..k -> S] : k \in 0..n}

Digits == <<"0", "1", "2", "3", "4", "5", "6", "7", "8", "9">>

\* str(n) of an int: decimal digits, "-" for a negative number
RECURSIVE NatToStr(_)
NatToStr(n) ==
    IF n < 10 THEN <<Digits[n + 1]>>
    ELSE Append(NatToStr(n \div 10), Digits[(n % 10) + 1])

IntToStr(n) == IF n < 0 THEN <<"-">> \o NatToStr(-n) ELSE NatToStr(n)

----------------------------------------------------------------------------
(* src/src/exception/__init__.py *)

\* A traceback entry: the code file of its frame and its line number.
Frames == { [co_filename |-> <<"a", ".", "t", "x", "t">>, tb_lineno |-> 42],
            [co_filename |-> <<>>, tb_lineno |-> 7] }

\* An active traceback: tb[1] is the object sys.exc_info() returns (the frame
\* that handles the error), tb[k+1] is tb[k].tb_next, and the last entry is
\* the frame in which the error was raised.
Tracebacks == SeqsUpTo(Frames, MaxDepth) \ {<<>>}

Messages == SeqsUpTo({"a"}, MaxMsgLen)

\* CustomException.__str__
CustomException__str__(self) == self.error_message

\* pystr, but a CustomException is unwrapped to its originalMessage
pystr_Unwraps(v, objs) ==
    CASE v.py = "str" -> [raised |-> FALSE, s |-> v.s]
      [] v.py = "int" -> [raised |-> FALSE, s |-> IntToStr(v.n)]
      [] v.py = "CustomException" -> [raised |-> FALSE, s |-> objs[v.id].args[1]]
      [] OTHER -> [raised |-> TRUE, s |-> <<>>]

\* str(v): [raised, s]
pystr(v, objs) ==
    CASE v.py = "str" -> [raised |-> FALSE, s |-> v.s]
      [] v.py = "int" -> [raised |-> FALSE, s |-> IntToStr(v.n)]
      [] v.py = "CustomException" ->
            [raised |-> FALSE, s |-> CustomException__str__(objs[v.id])]
      [] OTHER -> [raised |-> TRUE, s |-> <<>>]

\* FormatDetail, but an empty path is replaced by a placeholder
FormatDetail_EmptyPathReplaced(file_name, line_number, error) ==
    <<"E","r","r","o","r"," ","o","c","c","u","r","r","e","d"," ","i","n"," ",
      "p","y","t","h","o","n"," ","s","c","r","i","p","t",":"," ","[">>
    \o (IF file_name = <<>> THEN <<"?">> ELSE file_name)
    \o <<"]"," ","a","t"," ","l","i","n","e"," ","n","u","m","b","e","r"," ","[">>
    \o IntToStr(line_number)
    \o <<"]",":"," ">>
    \o error

\* the f-string of line 23
FormatDetail(file_name, line_number, error) ==
    <<"E","r","r","o","r"," ","o","c","c","u","r","r","e","d"," ","i","n"," ",
      "p","y","t","h","o","n"," ","s","c","r","i","p","t",":"," ","[">>
    \o file_name
    \o <<"]"," ","a","t"," ","l","i","n","e"," ","n","u","m","b","e","r"," ","[">>
    \o IntToStr(line_number)
    \o <<"]",":"," ">>
    \o error

\* logging.error(msg) on a sink that does or does not raise: [raised, logs]
logging_error(msg, raises) ==
    IF raises THEN [raised |-> TRUE, logs |-> <<>>]
    ELSE [raised |-> FALSE, logs |-> << [levelname |-> "ERROR", msg |-> msg] >>]

\* error_message_detail without the guard of lines 18-19: reading tb_frame of
\* None raises
error_message_detail_NoGuard(error, tb, raises) ==
    IF tb = <<>>
    THEN [raised |-> TRUE, ret |-> <<>>, logs |-> <<>>]
    ELSE LET error_message ==
                 FormatDetail(tb[1].co_filename, tb[1].tb_lineno, error)
             logged == logging_error(error_message, raises)
         IN  IF logged.raised
             THEN [raised |-> TRUE, ret |-> <<>>, logs |-> <<>>]
             ELSE [raised |-> FALSE, ret |-> error_message, logs |-> logged.logs]

\* error_message_detail, but the text returned is str(error) on both paths
error_message_detail_ReturnsRaw(error, tb, raises) ==
    IF tb = <<>>
    THEN [raised |-> FALSE, ret |-> error, logs |-> <<>>]
    ELSE LET error_message ==
                 FormatDetail(tb[1].co_filename, tb[1].tb_lineno, error)
             logged == logging_error(error_message, raises)
         IN  IF logged.raised
             THEN [raised |-> TRUE, ret |-> <<>>, logs |-> <<>>]
             ELSE [raised |-> FALSE, ret |-> error, logs |-> logged.logs]

\* error_message_detail(error, error_detail) with error_detail.exc_info()[2] = tb.
\* error is a text here (the caller passes str(error_message)), so str(error) = error.
error_message_detail(error, tb, raises) ==
    IF tb = <<>>
    THEN [raised |-> FALSE, ret |-> error, logs |-> <<>>]
    ELSE LET file_name == tb[1].co_filename
             line_number == tb[1].tb_lineno
             error_message == FormatDetail(file_name, line_number, error)
             logged == logging_error(error_message, raises)
         IN  IF logged.raised
             THEN [raised |-> TRUE, ret |-> <<>>, logs |-> <<>>]
             ELSE [raised |-> FALSE, ret |-> error_message, logs |-> logged.logs]

\* CustomException.__init__, but a failing str() is swallowed and replaced by "?"
CustomException__init__Swallows(v, objs, tb, raises) ==
    LET converted == pystr(v, objs)
        text == IF converted.raised THEN <<"?">> ELSE converted.s
        detail == error_message_detail(text, tb, raises)
    IN  IF detail.raised
        THEN [raised |-> TRUE, error |-> "logging", self |-> None,
              queried |-> TRUE, logs |-> <<>>]
        ELSE [raised |-> FALSE, error |-> "",
              self |-> [args |-> <<text>>, error_message |-> detail.ret],
              queried |-> TRUE, logs |-> detail.logs]

\* CustomException.__init__, but the base class is given the formatted message
CustomException__init__FormattedArgs(v, objs, tb, raises) ==
    LET converted == pystr(v, objs)
    IN  IF converted.raised
        THEN [raised |-> TRUE, error |-> "str", self |-> None,
              queried |-> FALSE, logs |-> <<>>]
        ELSE LET detail == error_message_detail(converted.s, tb, raises)
             IN  IF detail.raised
                 THEN [raised |-> TRUE, error |-> "logging", self |-> None,
                       queried |-> TRUE, logs |-> <<>>]
                 ELSE [raised |-> FALSE, error |-> "",
                       self |-> [args |-> <<detail.ret>>,
                                 error_message |-> detail.ret],
                       queried |-> TRUE, logs |-> detail.logs]

\* CustomException.__init__(self, error_message, error_detail=sys):
\* [raised, error, self, queried, logs]
CustomException__init__(v, objs, tb, raises) ==
    LET converted == pystr(v, objs)
    IN  IF converted.raised
        THEN [raised |-> TRUE, error |-> "str", self |-> None,
              queried |-> FALSE, logs |-> <<>>]
        ELSE LET detail == error_message_detail(converted.s, tb, raises)
             IN  IF detail.raised
                 THEN [raised |-> TRUE, error |-> "logging", self |-> None,
                       queried |-> TRUE, logs |-> <<>>]
                 ELSE [raised |-> FALSE, error |-> "",
                       self |-> [args |-> <<converted.s>>,
                                 error_message |-> detail.ret],
                       queried |-> TRUE, logs |-> detail.logs]

Idle == [op |-> "none", v |-> None, raised |-> FALSE, error |-> "",
         queried |-> FALSE, id |-> 0, emitted |-> 0, text |-> <<>>]

Inputs ==
    {PyStr(m) : m \in Messages} \cup {PyInt(42), BadStr}
        \cup {Ref(i) : i \in 1..Len(objects)}

\* a caller evaluates CustomException(v)
Construct(v) ==
    /\ calls < MaxCalls
    /\ LET res == CustomException__init__(v, objects, exc_tb, sinkRaises)
       IN  /\ objects' = IF res.raised THEN objects ELSE Append(objects, res.self)
           /\ sink' = sink \o res.logs
           /\ last' = [op |-> "CustomException", v |-> v, raised |-> res.raised,
                       error |-> res.error, queried |-> res.queried,
                       id |-> IF res.raised THEN 0 ELSE Len(objects) + 1,
                       emitted |-> Len(res.logs), text |-> <<>>]
    /\ calls' = calls + 1
    /\ UNCHANGED <<exc_tb, sinkRaises>>
    /\ UNCHANGED configVars

\* a caller evaluates str(objects[i])
Str(i) ==
    /\ last' = [Idle EXCEPT !.op = "str", !.id = i,
                            !.text = CustomException__str__(objects[i])]
    /\ UNCHANGED <<objects, sink, exc_tb, sinkRaises, calls>>
    /\ UNCHANGED configVars

\* the program enters an except block: an error with traceback tb is handled
EnterExcept(tb) ==
    /\ exc_tb = <<>>
    /\ exc_tb' = tb
    /\ last' = Idle
    /\ UNCHANGED <<objects, sink, sinkRaises, calls>>
    /\ UNCHANGED configVars

\* the program leaves the except block
ExitExcept ==
    /\ exc_tb # <<>>
    /\ exc_tb' = <<>>
    /\ last' = Idle
    /\ UNCHANGED <<objects, sink, sinkRaises, calls>>
    /\ UNCHANGED configVars

\* the logging sink starts or stops failing
SinkToggle ==
    /\ sinkRaises' = ~sinkRaises
    /\ last' = Idle
    /\ UNCHANGED <<objects, sink, exc_tb, calls>>
    /\ UNCHANGED configVars

----------------------------------------------------------------------------
(* src/constants/__init__.py *)

Keys == {"MONGODB_URLX", "AWS_ACCESS_KEY_ID", "AWS_SECRET_ACCESS_KEY",
         "APP_HOST", "APP_PORT"}

DefaultHost == <<"0", ".", "0", ".", "0", ".", "0">>
DefaultPort == 5000

\* load_dotenv(): every key of the .env file that the process environment
\* does not already hold is added to os.environ (override is off by default)
load_dotenv(env, file) ==
    [k \in DOMAIN env \cup DOMAIN file |->
        IF k \in DOMAIN env THEN env[k] ELSE file[k]]

\* os.getenv(key) with the default left out
getenv_NoDefault(env, key, default) ==
    IF key \in DOMAIN env THEN PyStr(env[key]) ELSE None

\* os.getenv(key, default)
getenv(env, key, default) ==
    IF key \in DOMAIN env THEN PyStr(env[key]) ELSE default

IsSpace(c) == c = " "
IsDigit(c) == \E d \in 1..10 : Digits[d] = c
DigitValue(c) == (CHOOSE d \in 1..10 : Digits[d] = c) - 1

RECURSIVE LStrip(_)
LStrip(s) == IF s # <<>> /\ IsSpace(Head(s)) THEN LStrip(Tail(s)) ELSE s

RECURSIVE RStrip(_)
RStrip(s) ==
    IF s # <<>> /\ IsSpace(s[Len(s)]) THEN RStrip(SubSeq(s, 1, Len(s) - 1)) ELSE s

\* the digits of an int literal, left to right: acc is the value so far and
\* prev the previous character ("" at the start); an underscore is accepted
\* only between two digits
RECURSIVE ScanDigits(_, _, _)
ScanDigits(s, acc, prev) ==
    IF s = <<>>
    THEN [raised |-> ~IsDigit(prev), n |-> acc]
    ELSE IF IsDigit(Head(s))
         THEN ScanDigits(Tail(s), acc * 10 + DigitValue(Head(s)), Head(s))
         ELSE IF Head(s) = "_" /\ IsDigit(prev)
              THEN ScanDigits(Tail(s), acc, "_")
              ELSE [raised |-> TRUE, n |-> 0]

\* int(v): an int is returned as it is; None raises; a text is stripped of surrounding
\* whitespace, may carry one sign and must then be a decimal literal,
\* otherwise ValueError. [raised, n]
pyint(v) ==
    IF v.py = "int" THEN [raised |-> FALSE, n |-> v.n]
    ELSE IF v.py # "str" THEN [raised |-> TRUE, n |-> 0]
    ELSE LET t == RStrip(LStrip(v.s))
             signed == t # <<>> /\ Head(t) \in {"-", "+"}
             body == IF signed THEN Tail(t) ELSE t
             scan == ScanDigits(body, 0, "")
         IN  IF scan.raised THEN [raised |-> TRUE, n |-> 0]
             ELSE [raised |-> FALSE,
                   n |-> IF signed /\ Head(t) = "-" THEN -scan.n ELSE scan.n]

PortAlphabet == {"8", "0", "-", "+", " ", "_", "x"}
PortTexts == SeqsUpTo(PortAlphabet, MaxEnvLen)
OtherTexts == {<<"v">>}
DotenvKeys == {"APP_PORT", "MONGODB_URLX"}

EnvTexts(k) == IF k = "APP_PORT" THEN PortTexts ELSE OtherTexts
DotenvTexts(k) == IF k = "APP_PORT" THEN {<<"8", "0">>} ELSE OtherTexts

Put(env, k, t) == [x \in DOMAIN env \cup {k} |-> IF x = k THEN t ELSE env[x]]
Drop(env, k) == [x \in DOMAIN env \ {k} |-> env[x]]

\* the process is started with k set to t
Setenv(k, t) ==
    /\ importState = "pending"
    /\ k \notin DOMAIN environ
    /\ environ' = Put(environ, k, t)
    /\ UNCHANGED <<dotenv, importState, MONGODB_URL, AWS_ACCESS_KEY_ID,
                   AWS_SECRET_ACCESS_KEY, APP_HOST, APP_PORT>>
    /\ UNCHANGED annotatorVars

\* the process is started without k
Unsetenv(k) ==
    /\ importState = "pending"
    /\ k \in DOMAIN environ
    /\ environ' = Drop(environ, k)
    /\ UNCHANGED <<dotenv, importState, MONGODB_URL, AWS_ACCESS_KEY_ID,
                   AWS_SECRET_ACCESS_KEY, APP_HOST, APP_PORT>>
    /\ UNCHANGED annotatorVars

\* the .env file holds k=t
WriteDotenv(k, t) ==
    /\ importState = "pending"
    /\ k \notin DOMAIN dotenv
    /\ dotenv' = Put(dotenv, k, t)
    /\ UNCHANGED <<environ, importState, MONGODB_URL, AWS_ACCESS_KEY_ID,
                   AWS_SECRET_ACCESS_KEY, APP_HOST, APP_PORT>>
    /\ UNCHANGED annotatorVars

\* the module body, lines 5 to 16, run once at import
ImportConstants ==
    /\ importState = "pending"
    /\ LET env == load_dotenv(environ, dotenv)
           port == pyint(getenv(env, "APP_PORT", PyInt(DefaultPort)))
       IN  /\ environ' = env
           /\ MONGODB_URL' = getenv(env, "MONGODB_URLX", None)
           /\ AWS_ACCESS_KEY_ID' = getenv(env, "AWS_ACCESS_KEY_ID", None)
           /\ AWS_SECRET_ACCESS_KEY' = getenv(env, "AWS_SECRET_ACCESS_KEY", None)
           /\ APP_HOST' = getenv(env, "APP_HOST", PyStr(DefaultHost))
           /\ APP_PORT' = IF port.raised THEN Undefined ELSE PyInt(port.n)
           /\ importState' = IF port.raised THEN "ValueError" ELSE "loaded"
    /\ UNCHANGED dotenv
    /\ UNCHANGED annotatorVars

----------------------------------------------------------------------------

Init ==
    /\ objects = <<>>
    /\ sink = <<>>
    /\ exc_tb = <<>>
    /\ sinkRaises = FALSE
    /\ calls = 0
    /\ last = Idle
    /\ environ = <<>>
    /\ dotenv = <<>>
    /\ importState = "pending"
    /\ MONGODB_URL = Undefined
    /\ AWS_ACCESS_KEY_ID = Undefined
    /\ AWS_SECRET_ACCESS_KEY = Undefined
    /\ APP_HOST = Undefined
    /\ APP_PORT = Undefined

Next ==
    \/ \E v \in Inputs : Construct(v)
    \/ \E i \in 1..Len(objects) : Str(i)
    \/ \E tb \in Tracebacks : EnterExcept(tb)
    \/ ExitExcept
    \/ SinkToggle

Spec == Init /\ [][Next]_vars

NextConfig ==
    \/ \E k \in Keys : \E t \in EnvTexts(k) : Setenv(k, t)
    \/ \E k \in Keys : Unsetenv(k)
    \/ \E k \in DotenvKeys : \E t \in DotenvTexts(k) : WriteDotenv(k, t)
    \/ ImportConstants

SpecConfig == Init /\ [][NextConfig]_vars

----------------------------------------------------------------------------
(* Vocabulary of the properties *)

\* the most recent operation was a CustomException(...) call that returned
Returned == last.op = "CustomException" /\ ~last.raised

\* the instance that call returned
NewObject == objects[last.id]

\* the canonical text of an input value, written out
TextOf(v) ==
    CASE v.py = "str" -> v.s
      [] v.py = "int" /\ v.n = 42 -> <<"4", "2">>
      [] v.py = "CustomException" -> objects[v.id].error_message

LineText(l) == CASE l = 42 -> <<"4", "2">> [] l = 7 -> <<"7">>

\* "Error occurred in <label>: [<f>] at line number [<l>]: <m>"
Located(label, frame, m) ==
    <<"E","r","r","o","r"," ","o","c","c","u","r","r","e","d"," ","i","n"," ">>
    \o label \o <<":"," ","[">> \o frame.co_filename
    \o <<"]"," ","a","t"," ","l","i","n","e"," ","n","u","m","b","e","r"," ","[">>
    \o LineText(frame.tb_lineno) \o <<"]",":"," ">> \o m

ScriptLabel == <<"s","c","r","i","p","t">>
PythonScriptLabel == <<"p","y","t","h","o","n"," ">> \o ScriptLabel

EndsWith(s, t) ==
    /\ Len(t) <= Len(s)
    /\ SubSeq(s, Len(s) - Len(t) + 1, Len(s)) = t

\* an existing instance is the same after a step
ObjectsKept == \A i \in DOMAIN objects : i \in DOMAIN objects' /\ objects'[i] = objects[i]

----------------------------------------------------------------------------
(* C1 *)

\* C1 as stated: with an active trace whose reported frame is (f, l), the text
\* form of CustomException(m) is exactly
\* "Error occurred in script: [f] at line number [l]: m".
C1_AsStated ==
    (Returned /\ last.v.py = "str" /\ exc_tb # <<>>) =>
        CustomException__str__(NewObject) = Located(ScriptLabel, exc_tb[1], last.v.s)

\* C1 as amended: with an active trace whose reported frame is (f, l), f
\* possibly empty, the text form of CustomException(m) is exactly
\* "Error occurred in python script: [f] at line number [l]: m".
C1_PythonScriptText ==
    (Returned /\ last.v.py = "str" /\ exc_tb # <<>>) =>
        CustomException__str__(NewObject)
            = Located(PythonScriptLabel, exc_tb[1], last.v.s)

C1_Witness ==
    /\ Returned /\ last.v.py = "str" /\ last.v.s # <<>>
    /\ exc_tb # <<>> /\ exc_tb[1].co_filename = <<>>

----------------------------------------------------------------------------
(* C2 *)

\* C2: when no trace is active, CustomException(v) returns, for every value v
\* that converts to text, an object whose text form is exactly str(v), with no
\* location prefix (whatever the state of the logging sink).
C2_NoTraceIsPlainText ==
    (last.op = "CustomException" /\ exc_tb = <<>> /\ last.v # BadStr) =>
        /\ ~last.raised
        /\ CustomException__str__(NewObject) = TextOf(last.v)

C2_Witness ==
    /\ Returned /\ exc_tb = <<>> /\ last.v.py = "int" /\ sinkRaises

----------------------------------------------------------------------------
(* C3 *)

\* C3 as stated: every construction, with or without an active trace, emits
\* exactly one ERROR record whose text is the formattedMessage of the object
\* returned, and after n completed constructions the sink holds n records.
C3_AsStated ==
    /\ Returned =>
          /\ last.emitted = 1
          /\ sink # <<>>
          /\ sink[Len(sink)] = [levelname |-> "ERROR", msg |-> NewObject.error_message]
    /\ Len(sink) = Len(objects)

----------------------------------------------------------------------------
(* C4 *)

\* C4 as stated: with an active trace of any length, the file and line in the
\* formatted message are those of the most recent frame of the trace, the
\* frame in which the error was raised.
C4_AsStated ==
    (Returned /\ exc_tb # <<>>) =>
        NewObject.error_message
            = Located(PythonScriptLabel, exc_tb[Len(exc_tb)], NewObject.args[1])

----------------------------------------------------------------------------
(* C5 *)

\* C5 as stated: the formattedMessage of every constructed object is
\* non-empty, and no later operation changes it.
C5_AsStated ==
    /\ [](\A i \in DOMAIN objects : objects[i].error_message # <<>>)
    /\ [][ObjectsKept]_vars

\* C5 as amended: the formattedMessage of a constructed object is empty only
\* when its originalMessage is empty, and never when a trace was active at
\* construction; once construction has finished no operation (a later
\* construction, a logging emission, a text conversion) changes it.
C5_NonEmptyUnlessEmptyInput ==
    /\ [](/\ \A i \in DOMAIN objects :
                objects[i].error_message = <<>> => objects[i].args[1] = <<>>
          /\ (Returned /\ exc_tb # <<>>) => NewObject.error_message # <<>>)
    /\ [][ObjectsKept]_vars

C5_Witness ==
    /\ Len(objects) = 2
    /\ objects[1].args[1] = <<>> /\ objects[1].error_message # <<>>
    /\ Len(sink) = 2
    /\ last.op = "str" /\ last.id = 1

----------------------------------------------------------------------------
(* C6 *)

\* C6 as stated: if the logging sink raises while the record is emitted, the
\* construction still returns an object and no failure escapes to the caller.
C6_AsStated ==
    (last.op = "CustomException" /\ sinkRaises /\ last.v # BadStr) => ~last.raised

----------------------------------------------------------------------------
(* C7 *)

\* C7: if converting the input to text raises, the failure reaches the caller
\* and the call has no other effect: sys.exc_info() is not queried, nothing is
\* emitted to the sink and no object is produced.
C7_ConversionFailurePropagates ==
    [][(last'.op = "CustomException" /\ last'.v = BadStr /\ calls' = calls + 1) =>
          /\ last'.raised /\ last'.error = "str"
          /\ ~last'.queried /\ last'.emitted = 0
          /\ sink' = sink /\ objects' = objects]_vars

C7_Witness ==
    /\ last.op = "CustomException" /\ last.v = BadStr /\ last.raised
    /\ exc_tb # <<>> /\ ~sinkRaises

----------------------------------------------------------------------------
(* C8 *)

\* C8: annotating an existing CustomException whose formattedMessage is F gives
\* an object whose originalMessage is F (not the inner originalMessage), whose
\* text form is F without a trace and the location prefix followed by F with
\* one, and leaves the inner object as it was.
C8_Restringified ==
    /\ []((Returned /\ last.v.py = "CustomException") =>
            LET F == objects[last.v.id].error_message
            IN  /\ NewObject.args = <<F>>
                /\ exc_tb = <<>> => CustomException__str__(NewObject) = F
                /\ exc_tb # <<>> =>
                      CustomException__str__(NewObject)
                          = Located(PythonScriptLabel, exc_tb[1], F))
    /\ [][(last'.op = "CustomException" /\ last'.v.py = "CustomException"
              /\ calls' = calls + 1) =>
            objects'[last'.v.id] = objects[last'.v.id]]_vars

C8_Witness ==
    /\ Returned /\ last.v.py = "CustomException" /\ exc_tb # <<>>
    /\ objects[last.v.id].args[1] # objects[last.v.id].error_message
    /\ NewObject.args[1] # objects[last.v.id].args[1]

----------------------------------------------------------------------------
(* C9 *)

\* the decimal literals int() accepts: optional surrounding blanks, an
\* optional sign, digits with single underscores between them
DigitChars == {Digits[d] : d \in 1..10}
Literals ==
    { b \in SeqsUpTo(PortAlphabet, MaxEnvLen + 1) :
        /\ b # <<>>
        /\ \A i \in 1..Len(b) : b[i] \in DigitChars \cup {"_"}
        /\ b[1] # "_" /\ b[Len(b)] # "_"
        /\ \A i \in 1..(Len(b) - 1) : ~(b[i] = "_" /\ b[i + 1] = "_") }
Blanks == SeqsUpTo({" "}, MaxEnvLen + 1)
IntegerTexts ==
    { l \o sg \o b \o r : l \in Blanks, sg \in {<<>>, <<"-">>, <<"+">>},
                          b \in Literals, r \in Blanks }

\* C9: after the import, an absent APP_PORT gives the integer 5000 and an
\* absent APP_HOST gives "0.0.0.0"; an APP_PORT that is the text of an integer
\* gives that integer; a malformed APP_PORT makes the import fail with a parse
\* error; an absent MONGODB_URLX, AWS_ACCESS_KEY_ID or AWS_SECRET_ACCESS_KEY
\* leaves its constant None and is never an error.
C9_ConfigurationLoad ==
    importState # "pending" =>
        /\ "APP_PORT" \notin DOMAIN environ =>
              importState = "loaded" /\ APP_PORT = PyInt(5000)
        /\ "APP_HOST" \notin DOMAIN environ =>
              APP_HOST = PyStr(<<"0", ".", "0", ".", "0", ".", "0">>)
        /\ \A n \in -99..999 :
              ("APP_PORT" \in DOMAIN environ /\ environ["APP_PORT"] = IntToStr(n)) =>
                  importState = "loaded" /\ APP_PORT = PyInt(n)
        /\ ("APP_PORT" \in DOMAIN environ /\ environ["APP_PORT"] \notin IntegerTexts) =>
              importState = "ValueError" /\ APP_PORT = Undefined
        /\ "MONGODB_URLX" \notin DOMAIN environ => MONGODB_URL = None
        /\ "AWS_ACCESS_KEY_ID" \notin DOMAIN environ => AWS_ACCESS_KEY_ID = None
        /\ "AWS_SECRET_ACCESS_KEY" \notin DOMAIN environ => AWS_SECRET_ACCESS_KEY = None
        /\ importState = "ValueError" => "APP_PORT" \in DOMAIN environ

C9_Witness ==
    /\ importState = "loaded"
    /\ DOMAIN environ = {"APP_PORT"}
    /\ environ["APP_PORT"] = <<"-", "8">>
    /\ dotenv = <<>>

----------------------------------------------------------------------------
(* C10 *)

\* C10: every constructed object keeps as originalMessage (args) exactly the
\* stringified input with no location prefix; its formattedMessage ends with
\* that originalMessage; the two are equal exactly when no trace was active.
C10_OriginalMessageKept ==
    /\ Returned =>
          /\ NewObject.args = <<TextOf(last.v)>>
          /\ (NewObject.error_message = NewObject.args[1]) <=> (exc_tb = <<>>)
    /\ \A i \in DOMAIN objects :
          /\ Len(objects[i].args) = 1
          /\ EndsWith(objects[i].error_message, objects[i].args[1])

C10_Witness ==
    /\ Returned /\ exc_tb # <<>> /\ last.v.py = "int"
    /\ NewObject.error_message # NewObject.args[1]

====
